---- MODULE Spec2Model ----
(***************************************************************************)
(* Dark-channel-prior dehazing (src/dark_channel_prior.py and its variant  *)
(* src/dark_channel_prior_uncommented.py) as a state machine.              *)
(*                                                                         *)
(* The program computes in IEEE-754 binary64 (np.float64) and converts to  *)
(* np.uint8 by truncation, so the arithmetic is modelled bit-exactly: a    *)
(* double is a sign, a 53-bit significand and an exponent, and + - * / are *)
(* rounded to nearest, ties to even.  Significands are naturals wider than *)
(* the model checker's integers and are kept as little-endian sequences of *)
(* 15-bit limbs.                                                           *)
(***************************************************************************)
EXTENDS Integers, Sequences, FiniteSets, TLC

(***************************************************************************)
(* Multi-limb naturals: <<>> is 0, the last limb is never 0.               *)
(***************************************************************************)
LimbBits == 15

Base == 2^LimbBits

RECURSIVE BNorm(_)
BNorm(a) ==
    IF a = <<>> THEN <<>>
    ELSE IF a[Len(a)] = 0 THEN BNorm(SubSeq(a, 1, Len(a) - 1))
    ELSE a

RECURSIVE BFromInt(_)
BFromInt(n) ==
    IF n = 0 THEN <<>> ELSE <<n % Base>> \o BFromInt(n \div Base)

RECURSIVE BToInt(_)
BToInt(a) ==
    IF a = <<>> THEN 0 ELSE Head(a) + Base * BToInt(Tail(a))

RECURSIVE BAddC(_, _, _)
BAddC(a, b, c) ==
    IF a = <<>> /\ b = <<>> THEN (IF c = 0 THEN <<>> ELSE <<c>>)
    ELSE LET x == (IF a = <<>> THEN 0 ELSE Head(a))
                  + (IF b = <<>> THEN 0 ELSE Head(b)) + c
         IN  <<x % Base>> \o BAddC(IF a = <<>> THEN <<>> ELSE Tail(a),
                                   IF b = <<>> THEN <<>> ELSE Tail(b),
                                   x \div Base)

BAdd(a, b) == BAddC(a, b, 0)

\* a - b - c for a >= b + c, limb by limb with borrow c
RECURSIVE BSubC(_, _, _)
BSubC(a, b, c) ==
    IF a = <<>> THEN <<>>
    ELSE LET x == Head(a) - (IF b = <<>> THEN 0 ELSE Head(b)) - c
         IN  <<x % Base>> \o BSubC(Tail(a),
                                   IF b = <<>> THEN <<>> ELSE Tail(b),
                                   IF x < 0 THEN 1 ELSE 0)

BSub(a, b) == BNorm(BSubC(a, b, 0))

RECURSIVE BCmpFrom(_, _, _)
BCmpFrom(a, b, i) ==
    IF i = 0 THEN 0
    ELSE IF a[i] < b[i] THEN -1
    ELSE IF a[i] > b[i] THEN 1
    ELSE BCmpFrom(a, b, i - 1)

BCmp(a, b) ==
    IF Len(a) < Len(b) THEN -1
    ELSE IF Len(a) > Len(b) THEN 1
    ELSE BCmpFrom(a, b, Len(a))

\* a * d + c for one limb d
RECURSIVE BMulSmallC(_, _, _)
BMulSmallC(a, d, c) ==
    IF a = <<>> THEN (IF c = 0 THEN <<>> ELSE <<c>>)
    ELSE LET x == Head(a) * d + c
         IN  <<x % Base>> \o BMulSmallC(Tail(a), d, x \div Base)

BMulSmall(a, d) == IF d = 0 THEN <<>> ELSE BMulSmallC(a, d, 0)

RECURSIVE BMul(_, _)
BMul(a, b) ==
    IF a = <<>> \/ b = <<>> THEN <<>>
    ELSE LET rest == BMul(a, Tail(b))
         IN  BAdd(BMulSmall(a, Head(b)),
                  IF rest = <<>> THEN <<>> ELSE <<0>> \o rest)

RECURSIVE IntBitLen(_)
IntBitLen(n) == IF n = 0 THEN 0 ELSE 1 + IntBitLen(n \div 2)

BBitLen(a) ==
    IF a = <<>> THEN 0 ELSE (Len(a) - 1) * LimbBits + IntBitLen(a[Len(a)])

BShl(a, k) ==
    IF a = <<>> THEN <<>>
    ELSE [i \in 1..(k \div LimbBits) |-> 0] \o BMulSmall(a, 2^(k % LimbBits))

BShr(a, k) ==
    LET q == k \div LimbBits
        r == k % LimbBits
        n == Len(a) - q
    IN  IF n <= 0 THEN <<>>
        ELSE BNorm([i \in 1..n |->
                 (a[q + i] \div 2^r)
                 + (IF i < n THEN (a[q + i + 1] % 2^r) * 2^(LimbBits - r) ELSE 0)])

\* bit i (bit 0 is the least significant) of a
BBit(a, i) ==
    IF i \div LimbBits + 1 > Len(a) THEN 0
    ELSE (a[i \div LimbBits + 1] \div 2^(i % LimbBits)) % 2

\* a mod 2^k # 0
BLowNonZero(a, k) ==
    \/ \E i \in 1..Len(a) : i <= k \div LimbBits /\ a[i] # 0
    \/ /\ k \div LimbBits + 1 <= Len(a)
       /\ a[k \div LimbBits + 1] % 2^(k % LimbBits) # 0

(***************************************************************************)
(* binary64.  A double is [s, m, e] with value s * m * 2^e: s is 1 or -1,  *)
(* m is a natural of exactly Precision bits, or 0 (then s = 1, e = 0; the  *)
(* program never tells -0.0 from 0.0).  Every value the program forms here *)
(* is finite and in the normal range.                                      *)
(***************************************************************************)
Precision == 53

Zero == [s |-> 1, m |-> <<>>, e |-> 0]

IsZero(a) == a.m = <<>>

\* the significand m0 of n without its k low bits is rounded up when the
\* part dropped is above half a unit, or is half a unit and m0 is odd
RoundsUp(n, k, m0, sticky) ==
    /\ BBit(n, k - 1) = 1
    /\ (sticky \/ BLowNonZero(n, k - 1) \/ BBit(m0, 0) = 1)

\* rounding up may carry into a bit more than Precision
Carried(s, m, e) ==
    IF BBitLen(m) > Precision THEN [s |-> s, m |-> BShr(m, 1), e |-> e + 1]
    ELSE [s |-> s, m |-> m, e |-> e]

Shortened(s, n, e, k, m0, sticky) ==
    Carried(s, IF RoundsUp(n, k, m0, sticky) THEN BAdd(m0, <<1>>) ELSE m0, e + k)

RoundBits(s, n, e, k, sticky) ==
    IF k <= 0 THEN [s |-> s, m |-> BShl(n, -k), e |-> e + k]
    ELSE Shortened(s, n, e, k, BShr(n, k), sticky)

\* s * n * 2^e (plus a nonzero fraction of 2^e when sticky) rounded to
\* nearest, ties to even
RoundD(s, n, e, sticky) ==
    IF n = <<>> THEN Zero ELSE RoundBits(s, n, e, BBitLen(n) - Precision, sticky)

\* astype(np.float64) of an integer
FromInt(n) ==
    RoundD(IF n < 0 THEN -1 ELSE 1, BFromInt(IF n < 0 THEN -n ELSE n), 0, FALSE)

NegD(a) == IF IsZero(a) THEN a ELSE [a EXCEPT !.s = -a.s]

\* -1, 0, 1 as |a| is below, equal to, above |b|
CmpMag(a, b) ==
    IF IsZero(a) THEN (IF IsZero(b) THEN 0 ELSE -1)
    ELSE IF IsZero(b) THEN 1
    ELSE IF a.e < b.e THEN -1
    ELSE IF a.e > b.e THEN 1
    ELSE BCmp(a.m, b.m)

SignOf(a) == IF IsZero(a) THEN 0 ELSE a.s

CmpD(a, b) ==
    IF SignOf(a) < SignOf(b) THEN -1
    ELSE IF SignOf(a) > SignOf(b) THEN 1
    ELSE SignOf(a) * CmpMag(a, b)

LtD(a, b) == CmpD(a, b) < 0

LeD(a, b) == CmpD(a, b) <= 0

\* np.minimum / np.maximum on finite values
MinD(a, b) == IF LtD(b, a) THEN b ELSE a

MaxD(a, b) == IF LtD(a, b) THEN b ELSE a

\* hi + lo for |hi| >= |lo| > 0, x being hi's significand at lo's exponent
AddAligned(hi, lo, x) ==
    RoundD(hi.s, IF hi.s = lo.s THEN BAdd(x, lo.m) ELSE BSub(x, lo.m), lo.e, FALSE)

AddMag(hi, lo) ==
    IF hi.e - lo.e > Precision + 3 THEN hi
    ELSE AddAligned(hi, lo, BShl(hi.m, hi.e - lo.e))

AddD(a, b) ==
    IF IsZero(a) THEN b
    ELSE IF IsZero(b) THEN a
    ELSE AddMag(IF CmpMag(a, b) >= 0 THEN a ELSE b, IF CmpMag(a, b) >= 0 THEN b ELSE a)

SubD(a, b) == AddD(a, NegD(b))

MulD(a, b) ==
    IF IsZero(a) \/ IsZero(b) THEN Zero
    ELSE RoundD(a.s * b.s, BMul(a.m, b.m), a.e + b.e, FALSE)

\* the next n quotient bits of r / d, for r < d: <<bits, remainder>>
RECURSIVE DivBits(_, _, _)
DivBits(r, d, n) ==
    IF n = 0 THEN <<0, r>>
    ELSE LET r2  == BAdd(r, r)
             bit == BCmp(r2, d) >= 0
             rec == DivBits(IF bit THEN BSub(r2, d) ELSE r2, d, n - 1)
         IN  <<(IF bit THEN 2^(n - 1) ELSE 0) + rec[1], rec[2]>>

\* the next n quotient limbs of r / d, for r < d, the least significant
\* first: <<limbs, remainder>>
RECURSIVE DivLimbs(_, _, _)
DivLimbs(r, d, n) ==
    IF n = 0 THEN <<<<>>, r>>
    ELSE LET c    == DivBits(r, d, LimbBits)
             rest == DivLimbs(c[2], d, n - 1)
         IN  <<rest[1] \o <<c[1]>>, rest[2]>>

\* a / b from the integer bit of a.m / b.m and the four limbs q[1] of its
\* fraction, q[2] being the remainder
DivRounded(a, b, one, q) ==
    RoundD(a.s * b.s, BNorm(q[1] \o <<IF one THEN 1 ELSE 0>>),
           a.e - b.e - 4 * LimbBits, q[2] # <<>>)

DivFrom(a, b, one) ==
    DivRounded(a, b, one, DivLimbs(IF one THEN BSub(a.m, b.m) ELSE a.m, b.m, 4))

\* a / b for b # 0
DivD(a, b) ==
    IF IsZero(a) THEN Zero ELSE DivFrom(a, b, BCmp(a.m, b.m) >= 0)

\* the integer part of a, for 0 <= a < 2^31
TruncD(a) ==
    IF IsZero(a) THEN 0
    ELSE IF a.e >= 0 THEN BToInt(BShl(a.m, a.e))
    ELSE BToInt(BShr(a.m, -a.e))

(***************************************************************************)
(* The doubles the source's literals denote.                               *)
(***************************************************************************)
\* 1.0 = 0x1.0000000000000p+0
One == [s |-> 1, m |-> <<0, 0, 0, 128>>, e |-> -52]

\* 255.0 = 0x1.fe00000000000p+7
MaxLevel == [s |-> 1, m |-> <<0, 0, 0, 255>>, e |-> -45]

\* 0.2 = 0x1.999999999999ap-3
TopFraction == [s |-> 1, m |-> <<6554, 13107, 26214, 204>>, e |-> -55]

\* 1e-6 = 0x1.0c6f7a0b5ed8dp-20
Epsilon == [s |-> 1, m |-> <<28045, 16747, 7134, 134>>, e |-> -72]

\* 0.01 = 0x1.47ae147ae147bp-7
TransmissionFloor == [s |-> 1, m |-> <<5243, 3932, 27525, 163>>, e |-> -59]

\* 0.95 = 0x1.e666666666666p-1
DefaultOmega == [s |-> 1, m |-> <<26214, 19660, 6553, 243>>, e |-> -53]

\* 0.1 = 0x1.999999999999ap-4
DefaultT0 == [s |-> 1, m |-> <<6554, 13107, 26214, 204>>, e |-> -56]

\* an array is a value: Array(f) is f, with its elements computed once
\* rather than at every use
Array(f) == IF f = f THEN f ELSE f

(***************************************************************************)
(* Arrays.  A map is a sequence of rows of scalars, an image a sequence of *)
(* rows of pixels, a pixel the sequence of its three channels.             *)
(***************************************************************************)
Height(a) == Len(a)

Width(a) == Len(a[1])

NumPixels(a) == Height(a) * Width(a)

\* a.reshape(n): the rows one after the other
Flatten(a) ==
    Array([i \in 1..NumPixels(a) |-> a[((i - 1) \div Width(a)) + 1][((i - 1) % Width(a)) + 1]])

MinOfSet(S) == CHOOSE m \in S : \A v \in S : LeD(m, v)

\* np.clip(x, lo, hi)
clip(x, lo, hi) == MinD(MaxD(x, lo), hi)

(***************************************************************************)
(* get_dark_channel                                                        *)
(***************************************************************************)
\* np.min(image, axis=2)
min_channel(image) ==
    Array([y \in 1..Height(image) |-> [x \in 1..Width(image) |->
        MinD(MinD(image[y][x][1], image[y][x][2]), image[y][x][3])]])

\* cv2.getStructuringElement(cv2.MORPH_RECT, (ksize, ksize)) raises
\* cv2.error unless the kernel's anchor (ksize / 2) lies inside the kernel
KernelRaises(ksize) == ksize <= 0

\* an erosion whose border is a constant 0 instead
erode_zero_border(src, ksize) ==
    Array([y \in 1..Height(src) |-> [x \in 1..Width(src) |->
        IF \A i, j \in 0..(ksize - 1) :
               /\ y + i - (ksize \div 2) \in 1..Height(src)
               /\ x + j - (ksize \div 2) \in 1..Width(src)
        THEN MinOfSet({src[y + i - (ksize \div 2)][x + j - (ksize \div 2)] :
                          i \in 0..(ksize - 1), j \in 0..(ksize - 1)})
        ELSE Zero]])

\* cv2.erode(src, kernel) with a ksize x ksize rectangle, the default anchor
\* (the kernel's centre, ksize / 2) and the default border (a constant that
\* never is the minimum): the minimum over the kernel's positions that fall
\* inside the map
erode(src, ksize) ==
    LET anchor == ksize \div 2
        Rows(y) == {y + i - anchor : i \in 0..(ksize - 1)} \cap (1..Height(src))
        Cols(x) == {x + j - anchor : j \in 0..(ksize - 1)} \cap (1..Width(src))
    IN  Array([y \in 1..Height(src) |-> [x \in 1..Width(src) |->
            MinOfSet({src[yy][xx] : yy \in Rows(y), xx \in Cols(x)})]])

get_dark_channel(image, window_size) == erode(min_channel(image), window_size)

(***************************************************************************)
(* get_atmospheric_light                                                   *)
(***************************************************************************)
IntMax(a, b) == IF a > b THEN a ELSE b

\* int(max(np.floor(num_pixels * 0.2), 1))
num_brightest(num_pixels) ==
    IntMax(TruncD(MulD(FromInt(num_pixels), TopFraction)), 1)

\* image.reshape(num_pixels, 3) raises ValueError unless the image has
\* num_pixels pixels; np.argpartition(a, kth) raises ValueError unless
\* kth < len(a)
AtmosphericLightRaises(image, dark) ==
    \/ NumPixels(image) # NumPixels(dark)
    \/ num_brightest(NumPixels(dark)) >= NumPixels(dark)

\* the number of values of dark_vec strictly above each of its values
NumAbove(dark_vec) ==
    Array([i \in 1..Len(dark_vec) |->
        Cardinality({j \in 1..Len(dark_vec) : LtD(dark_vec[i], dark_vec[j])})])

\* np.argpartition(-dark_vec, k)[:k]: k distinct indices of the k smallest
\* values of -dark_vec, that is of the k largest of dark_vec: no value left
\* out is above a value taken.  Which of several equal values are taken, and
\* in which order the k indices come, is left open by numpy and differs
\* between its builds.
IsPartition(idx, above, k) ==
    /\ \A i, j \in 1..k : i # j => idx[i] # idx[j]
    /\ \A j \in 1..Len(above) :
          (\A l \in 1..k : idx[l] # j) => \A i \in 1..k : above[j] >= above[idx[i]]

PartitionsOf(above, k) ==
    {idx \in [1..k -> {i \in 1..Len(above) : above[i] < k}] : IsPartition(idx, above, k)}

\* k indices of the k smallest values of dark_vec instead
argpartition_of_smallest(dark_vec, k) ==
    {idx \in [1..k -> 1..Len(dark_vec)] :
        /\ \A i, j \in 1..k : i # j => idx[i] # idx[j]
        /\ \A j \in 1..Len(dark_vec) :
              (\A l \in 1..k : idx[l] # j)
                  => \A i \in 1..k : ~LtD(dark_vec[j], dark_vec[idx[i]])}

argpartition(dark_vec, k) == PartitionsOf(NumAbove(dark_vec), k)

\* the sum of column c of the rows, the first row first
RECURSIVE SumChannel(_, _, _)
SumChannel(rows, c, n) ==
    IF n = 1 THEN rows[1][c]
    ELSE AddD(SumChannel(rows, c, n - 1), rows[n][c])

\* np.mean(rows, axis=0)
mean(rows) ==
    [c \in 1..3 |-> DivD(SumChannel(rows, c, Len(rows)), FromInt(Len(rows)))]

\* np.mean(image_vec[indices], axis=0) for every indices argpartition may
\* return
mean_of_brightest(image_vec, dark_vec, k) ==
    {mean(rows) :
        rows \in {[j \in 1..k |-> image_vec[idx[j]]] : idx \in argpartition(dark_vec, k)}}

\* the values get_atmospheric_light may return
get_atmospheric_light(image, dark) ==
    mean_of_brightest(Flatten(image), Flatten(dark), num_brightest(NumPixels(dark)))

(***************************************************************************)
(* get_transmission_estimate                                               *)
(***************************************************************************)
\* the image as it is instead
unnormalized_image(image, atmospheric_light) == image

\* image / (atmospheric_light + 1e-6)
normalized_image(image, atmospheric_light) ==
    Array([y \in 1..Height(image) |-> [x \in 1..Width(image) |-> [c \in 1..3 |->
        DivD(image[y][x][c], AddD(atmospheric_light[c], Epsilon))]]])

\* 1 - omega * get_dark_channel(normalized_image, window_size)
raw_transmission_of(dark, omega) ==
    Array([y \in 1..Height(dark) |-> [x \in 1..Width(dark) |->
        SubD(One, MulD(omega, dark[y][x]))]])

\* a clip from above alone
clip_transmission_unfloored(transmission) ==
    Array([y \in 1..Height(transmission) |-> [x \in 1..Width(transmission) |->
        MinD(transmission[y][x], One)]])

\* np.clip(transmission, 0.01, 1)
clip_transmission(transmission) ==
    Array([y \in 1..Height(transmission) |-> [x \in 1..Width(transmission) |->
        clip(transmission[y][x], TransmissionFloor, One)]])

get_transmission_estimate(image, atmospheric_light, window_size, omega) ==
    clip_transmission(raw_transmission_of(
        get_dark_channel(normalized_image(image, atmospheric_light), window_size),
        omega))

(***************************************************************************)
(* get_recovered_image                                                     *)
(***************************************************************************)
\* numpy broadcasts the (h, w, 1) transmission against the (h', w', 3) image:
\* along an axis the two lengths must be equal or one of them 1, else the
\* subtraction raises ValueError
Broadcastable(m, n) == m = n \/ m = 1 \/ n = 1

RecoverRaises(image, transmission) ==
    \/ ~Broadcastable(Height(image), Height(transmission))
    \/ ~Broadcastable(Width(image), Width(transmission))

BroadcastLen(m, n) == IF m = 1 THEN n ELSE m

BroadcastIndex(i, m) == IF m = 1 THEN 1 ELSE i

\* the same without the atmospheric light added back
recovered_J_unshifted(image, transmission, atmospheric_light, t0) ==
    Array([y \in 1..BroadcastLen(Height(image), Height(transmission)) |->
           [x \in 1..BroadcastLen(Width(image), Width(transmission)) |->
            [c \in 1..3 |->
        DivD(SubD(image[BroadcastIndex(y, Height(image))]
                       [BroadcastIndex(x, Width(image))][c],
                  atmospheric_light[c]),
             MaxD(transmission[BroadcastIndex(y, Height(transmission))]
                              [BroadcastIndex(x, Width(transmission))], t0))]]])

\* J = (image - atmospheric_light) / np.maximum(transmission, t0)[:, :, np.newaxis]
\*     + atmospheric_light
recovered_J(image, transmission, atmospheric_light, t0) ==
    LET h == BroadcastLen(Height(image), Height(transmission))
        w == BroadcastLen(Width(image), Width(transmission))
    IN  Array([y \in 1..h |-> [x \in 1..w |->
            LET px == image[BroadcastIndex(y, Height(image))][BroadcastIndex(x, Width(image))]
                t  == MaxD(transmission[BroadcastIndex(y, Height(transmission))]
                                       [BroadcastIndex(x, Width(transmission))], t0)
            IN  [c \in 1..3 |->
                    AddD(DivD(SubD(px[c], atmospheric_light[c]), t),
                         atmospheric_light[c])]]])

\* a cast that keeps the low eight bits of the magnitude instead
to_uint8_wrapping(j) == TruncD(MulD(j, MaxLevel)) % 256

\* np.clip(j * 255, 0, 255) then astype(np.uint8), which drops the fraction
to_uint8(j) == TruncD(clip(MulD(j, MaxLevel), Zero, MaxLevel))

scale_and_cast(J) ==
    Array([y \in 1..Height(J) |-> [x \in 1..Width(J) |-> [c \in 1..3 |->
        to_uint8(J[y][x][c])]]])

get_recovered_image(image, transmission, atmospheric_light, t0) ==
    scale_and_cast(recovered_J(image, transmission, atmospheric_light, t0))

(***************************************************************************)
(* dehaze                                                                  *)
(***************************************************************************)
\* image.astype(np.float64) / 255
to_float(image8) ==
    Array([y \in 1..Height(image8) |-> [x \in 1..Width(image8) |-> [c \in 1..3 |->
        DivD(FromInt(image8[y][x][c]), MaxLevel)]]])

(***************************************************************************)
(* The forward haze model of the round-trip property,                      *)
(* observed = scene * t + A * (1 - t), formed by the caller with the same  *)
(* arithmetic and handed to get_recovered_image.                           *)
(***************************************************************************)
hazed(scene, t, A) ==
    Array([y \in 1..Height(scene) |-> [x \in 1..Width(scene) |-> [c \in 1..3 |->
        AddD(MulD(scene[y][x][c], t[y][x]), MulD(A[c], SubD(One, t[y][x])))]]])

(***************************************************************************)
(* The state: which function was called and from which file, its          *)
(* arguments, the locals of the call in progress, and where it stands.     *)
(***************************************************************************)
VARIABLES
    variant,            \* the source file the call runs in
    entry,              \* the function called
    pc,                 \* the stage about to run, "done" or "raised"
    image8,             \* dehaze's uint8 argument (the round trip's scene)
    image,              \* the float image
    window_size,
    omega,
    t0,
    dark,               \* get_dark_channel(image, window_size)
    atmospheric_light,
    tdark,              \* get_dark_channel(normalized_image, window_size)
    transmission,       \* get_transmission_estimate's local, before np.clip
    raw_transmission,   \* what get_transmission_estimate returns
    J,                  \* get_recovered_image's local, before scaling
    dehazed_image,      \* what get_recovered_image returns
    err                 \* the exception raised, or "none"

vars == <<variant, entry, pc, image8, image, window_size, omega, t0, dark,
          atmospheric_light, tdark, transmission, raw_transmission, J,
          dehazed_image, err>>

Commented == "dark_channel_prior.py"

Uncommented == "dark_channel_prior_uncommented.py"

None == <<>>

(***************************************************************************)
(* The calls explored.                                                     *)
(***************************************************************************)
\* sides of the images handed to get_dark_channel
MaxSide == 3

\* window radii handed to get_dark_channel: sizes 3, 5, ..., 2 * MaxRadius + 1
MaxRadius == 3

\* dehaze's default window_size in the two files
DefaultWindowSize == 5

DefaultWindowSizeUncommented == 15

\* other doubles handed to the functions
\* 0.5
Half == [s |-> 1, m |-> <<0, 0, 0, 128>>, e |-> -53]

\* -0.5
MinusHalf == [s |-> -1, m |-> <<0, 0, 0, 128>>, e |-> -53]

\* -1.0
MinusOne == [s |-> -1, m |-> <<0, 0, 0, 128>>, e |-> -52]

\* 2.0
Two == [s |-> 1, m |-> <<0, 0, 0, 128>>, e |-> -51]

\* 0.05 = 0x1.999999999999ap-5
Twentieth == [s |-> 1, m |-> <<6554, 13107, 26214, 204>>, e |-> -57]

\* 0.25
Quarter == [s |-> 1, m |-> <<0, 0, 0, 128>>, e |-> -54]

\* 0.75
ThreeQuarters == [s |-> 1, m |-> <<0, 0, 0, 192>>, e |-> -53]

\* 13 / 255 = 0x1.a1a1a1a1a1a1ap-5
Level13 == [s |-> 1, m |-> <<6682, 13364, 26728, 208>>, e |-> -57]

\* 50 / 255 = 0x1.9191919191919p-3
Level50 == [s |-> 1, m |-> <<6425, 12850, 25700, 200>>, e |-> -55]

Grey(v) == <<v, v, v>>

Uniform(h, w, c) == [y \in 1..h |-> [x \in 1..w |-> c]]

\* colour bg everywhere but at the p-th pixel, which is fg
OneOdd(h, w, bg, fg, p) ==
    [y \in 1..h |-> [x \in 1..w |-> IF (y - 1) * w + x = p THEN fg ELSE bg]]

\* grey levels 1, 2, ..., h * w row by row (up) or the reverse
Ramp(h, w, up) ==
    [y \in 1..h |-> [x \in 1..w |->
        Grey(IF up THEN (y - 1) * w + x ELSE h * w + 1 - ((y - 1) * w + x))]]

\* a uint8 image as floats of the same values
AsFloat(image8_) ==
    Array([y \in 1..Height(image8_) |-> [x \in 1..Width(image8_) |-> [c \in 1..3 |->
        FromInt(image8_[y][x][c])]]])

\* a colour whose channels differ
Tinted == <<Twentieth, Level50, Half>>

\* dehaze(image8, window_size, omega, t0)
DehazeImages ==
    {Uniform(h, w, c) : h \in 1..2, w \in 1..2, c \in {Grey(50), Grey(13), <<10, 20, 30>>}}
    \cup {OneOdd(2, 2, Grey(0), Grey(255), p) : p \in 1..4}
    \cup {Uniform(4, 4, Grey(50)), Uniform(4, 4, Grey(13))}

DehazeParams ==
    {<<DefaultWindowSize, DefaultOmega, DefaultT0>>,
     <<3, One, TransmissionFloor>>,
     <<3, Zero, One>>}

\* <<variant, image8, window_size, omega, t0>>
DehazeCalls ==
    {<<Commented, i, p[1], p[2], p[3]>> : i \in DehazeImages, p \in DehazeParams}
    \cup
    {<<Uncommented, i, DefaultWindowSizeUncommented, DefaultOmega, DefaultT0>> :
        i \in DehazeImages}

InitDehaze ==
    \E call \in DehazeCalls :
        /\ entry = "dehaze"
        /\ pc = "convert"
        /\ variant = call[1]
        /\ image8 = call[2]
        /\ window_size = call[3]
        /\ omega = call[4]
        /\ t0 = call[5]
        /\ image = None
        /\ dark = None
        /\ atmospheric_light = None
        /\ raw_transmission = None

\* get_dark_channel(image, window_size)
ColoursF == {Grey(Zero), Grey(One), Tinted}

DarkImages ==
    {OneOdd(h, w, bg, fg, p) :
        h \in 1..MaxSide, w \in 1..MaxSide, bg \in ColoursF, fg \in ColoursF,
        p \in 1..(MaxSide * MaxSide)}
    \cup
    {AsFloat(Ramp(h, w, up)) : h \in 1..MaxSide, w \in 1..MaxSide, up \in BOOLEAN}

WindowSizes == (-1)..2 \cup {2 * r + 1 : r \in 1..MaxRadius}

InitDark ==
    /\ entry = "get_dark_channel"
    /\ pc = "dark"
    /\ variant = Commented
    /\ image \in DarkImages
    /\ window_size \in WindowSizes
    /\ image8 = None
    /\ omega = None
    /\ t0 = None
    /\ dark = None
    /\ atmospheric_light = None
    /\ raw_transmission = None

\* get_atmospheric_light(image, dark), dark being the image's dark channel,
\* or a map of another shape
AtmosImages ==
    {OneOdd(h, w, bg, fg, p) :
        h \in 1..2, w \in 1..2, bg \in {Grey(Zero), Grey(MaxLevel), Tinted},
        fg \in {Grey(Zero), Grey(MaxLevel), Tinted}, p \in 1..4}
    \cup {AsFloat(r) : r \in {Ramp(2, 5, TRUE), Ramp(5, 2, FALSE)}}

RowMap == <<<<Zero, One>>>>

ColumnMap == <<<<Zero>>, <<One>>>>

\* <<image, window_size, dark>>
AtmosCalls ==
    {<<i, ws, get_dark_channel(i, ws)>> : i \in AtmosImages, ws \in {1, 3}}
    \cup
    {<<i, 1, d>> :
        i \in {OneOdd(1, 2, Grey(Zero), Grey(MaxLevel), 1),
               OneOdd(2, 2, Grey(Zero), Grey(MaxLevel), 1)},
        d \in {RowMap, ColumnMap}}

InitAtmos ==
    \E call \in AtmosCalls :
        /\ entry = "get_atmospheric_light"
        /\ pc = "atmos"
        /\ variant = Commented
        /\ image = call[1]
        /\ window_size = call[2]
        /\ dark = call[3]
        /\ image8 = None
        /\ omega = None
        /\ t0 = None
        /\ atmospheric_light = None
        /\ raw_transmission = None

\* get_transmission_estimate(image, atmospheric_light, window_size, omega)
TransImages ==
    {Uniform(1, 1, Tinted),
     OneOdd(1, 2, Grey(Zero), Grey(One), 1),
     OneOdd(1, 2, Grey(Level13), Grey(Level50), 2),
     Uniform(2, 2, Grey(Level50))}

TransLights == {Grey(Zero), Grey(One), Grey(Level50), Tinted}

Omegas == {Zero, Half, DefaultOmega, One, Two, MinusHalf}

\* <<image, atmospheric_light, window_size>>
TransCalls ==
    {<<i, A, ws>> : i \in TransImages, A \in TransLights, ws \in {0, 3}}
    \cup {<<Uniform(4, 4, Grey(Level50)), Grey(Level50), 3>>}

InitTrans ==
    \E call \in TransCalls :
        /\ entry = "get_transmission_estimate"
        /\ pc = "trans"
        /\ variant = Commented
        /\ image = call[1]
        /\ atmospheric_light = call[2]
        /\ window_size = call[3]
        /\ omega \in Omegas
        /\ image8 = None
        /\ t0 = None
        /\ dark = None
        /\ raw_transmission = None

\* get_recovered_image(image, transmission, atmospheric_light, t0)
RecoverPixel == <<Zero, Level50, One>>

RecoverLights == {Grey(Zero), Grey(One), <<Half, Two, MinusOne>>}

TransmissionValues == {MinusOne, Zero, Twentieth, Half, One, Two}

\* <<image, transmission>>
RecoverArguments ==
    {<<<<<<RecoverPixel>>>>, <<<<t>>>>>> : t \in TransmissionValues}
    \cup
    {<<<<<<RecoverPixel>>>>, <<<<Half, Twentieth>>>>>>,
     <<<<<<RecoverPixel>>, <<Grey(One)>>>>, <<<<MinusOne>>, <<Twentieth>>>>>>,
     <<<<<<RecoverPixel>>, <<Grey(One)>>>>, <<<<Half, One>>>>>>,
     <<<<<<RecoverPixel>>, <<Grey(One)>>>>, <<<<Half>>, <<One>>, <<One>>>>>>}

T0s == {TransmissionFloor, DefaultT0, One, Two, Zero}

AllAbove(map, v) ==
    \A y \in 1..Height(map) : \A x \in 1..Width(map) : LtD(v, map[y][x])

\* with t0 = 0 only maps above 0 are explored: the division is by a nonzero
\* transmission in every call
InitRecover ==
    \E call \in RecoverArguments :
        /\ entry = "get_recovered_image"
        /\ pc = "recover"
        /\ variant = Commented
        /\ image = call[1]
        /\ raw_transmission = call[2]
        /\ atmospheric_light \in RecoverLights
        /\ t0 \in {v \in T0s : ~IsZero(v) \/ AllAbove(call[2], Zero)}
        /\ image8 = None
        /\ window_size = None
        /\ omega = None
        /\ dark = None

\* the round trip: <<scene, atmospheric_light, transmission>>
Scenes == {<<<<<<0, 13, 255>>>>>>, <<<<<<128, 50, 1>>>>>>, <<<<<<254, 127, 200>>>>>>}

RoundTripCalls ==
    {<<sc, A, <<<<t>>>>>> :
        sc \in Scenes, A \in {Grey(Zero), Grey(One), <<Half, Quarter, ThreeQuarters>>},
        t \in {TransmissionFloor, Twentieth, DefaultT0, Half, One}}
    \cup
    {<<<<<<<<0, 13, 255>>, <<128, 50, 1>>>>>>, <<Half, Quarter, ThreeQuarters>>,
       <<<<Quarter, ThreeQuarters>>>>>>}

InitRoundTrip ==
    \E call \in RoundTripCalls :
        /\ entry = "roundtrip"
        /\ pc = "haze"
        /\ variant = Commented
        /\ image8 = call[1]
        /\ atmospheric_light = call[2]
        /\ raw_transmission = call[3]
        /\ t0 \in {TransmissionFloor, DefaultT0}
        /\ image = None
        /\ window_size = None
        /\ omega = None
        /\ dark = None

Init ==
    /\ \/ InitDehaze
       \/ InitDark
       \/ InitAtmos
       \/ InitTrans
       \/ InitRecover
       \/ InitRoundTrip
    /\ tdark = None
    /\ transmission = None
    /\ J = None
    /\ dehazed_image = None
    /\ err = "none"

(***************************************************************************)
(* The stages.  A stage called on its own returns to its caller; inside    *)
(* dehaze the next stage follows.                                          *)
(***************************************************************************)
After(next) == IF entry = "dehaze" THEN next ELSE "done"

\* dehaze: image = image.astype(np.float64) / 255
Convert ==
    /\ pc = "convert"
    /\ image' = to_float(image8)
    /\ pc' = "dark"
    /\ UNCHANGED <<variant, entry, image8, window_size, omega, t0, dark,
                   atmospheric_light, tdark, transmission, raw_transmission, J,
                   dehazed_image, err>>

\* get_dark_channel; in the uncommented file it then shows the map
\* (cv2.imshow) and waits for a key (cv2.waitKey(0))
DarkChannel ==
    /\ pc = "dark"
    /\ IF KernelRaises(window_size)
       THEN /\ err' = "cv2.error"
            /\ pc' = "raised"
            /\ UNCHANGED dark
       ELSE /\ dark' = get_dark_channel(image, window_size)
            /\ pc' = IF variant = Uncommented THEN "dark_waitKey" ELSE After("atmos")
            /\ UNCHANGED err
    /\ UNCHANGED <<variant, entry, image8, image, window_size, omega, t0,
                   atmospheric_light, tdark, transmission, raw_transmission, J,
                   dehazed_image>>

\* the user presses a key: cv2.waitKey(0) returns, the windows are destroyed
\* and get_dark_channel returns
KeyPress ==
    /\ pc \in {"dark_waitKey", "trans_waitKey"}
    /\ pc' = IF pc = "dark_waitKey" THEN After("atmos") ELSE "trans_rest"
    /\ UNCHANGED <<variant, entry, image8, image, window_size, omega, t0, dark,
                   atmospheric_light, tdark, transmission, raw_transmission, J,
                   dehazed_image, err>>

AtmosphericLight ==
    /\ pc = "atmos"
    /\ IF AtmosphericLightRaises(image, dark)
       THEN /\ err' = "ValueError"
            /\ pc' = "raised"
            /\ UNCHANGED atmospheric_light
       ELSE /\ \E A \in get_atmospheric_light(image, dark) : atmospheric_light' = A
            /\ pc' = After("trans")
            /\ UNCHANGED err
    /\ UNCHANGED <<variant, entry, image8, image, window_size, omega, t0, dark,
                   tdark, transmission, raw_transmission, J, dehazed_image>>

\* get_transmission_estimate, up to the return of its get_dark_channel call
\* in the uncommented file, which waits for a key, and to its own return in
\* the other
TransmissionEstimate ==
    /\ pc = "trans"
    /\ IF KernelRaises(window_size)
       THEN /\ err' = "cv2.error"
            /\ pc' = "raised"
            /\ UNCHANGED <<tdark, transmission, raw_transmission>>
       ELSE /\ tdark' = get_dark_channel(normalized_image(image, atmospheric_light),
                                         window_size)
            /\ IF variant = Uncommented
               THEN /\ pc' = "trans_waitKey"
                    /\ UNCHANGED <<transmission, raw_transmission>>
               ELSE /\ transmission' = raw_transmission_of(tdark', omega)
                    /\ raw_transmission' = clip_transmission(transmission')
                    /\ pc' = After("recover")
            /\ UNCHANGED err
    /\ UNCHANGED <<variant, entry, image8, image, window_size, omega, t0, dark,
                   atmospheric_light, J, dehazed_image>>

\* the rest of get_transmission_estimate in the uncommented file
TransmissionRest ==
    /\ pc = "trans_rest"
    /\ transmission' = raw_transmission_of(tdark, omega)
    /\ raw_transmission' = clip_transmission(transmission')
    /\ pc' = After("recover")
    /\ UNCHANGED <<variant, entry, image8, image, window_size, omega, t0, dark,
                   atmospheric_light, tdark, J, dehazed_image, err>>

Recover ==
    /\ pc = "recover"
    /\ IF RecoverRaises(image, raw_transmission)
       THEN /\ err' = "ValueError"
            /\ pc' = "raised"
            /\ UNCHANGED <<J, dehazed_image>>
       ELSE /\ J' = recovered_J(image, raw_transmission, atmospheric_light, t0)
            /\ dehazed_image' = scale_and_cast(J')
            /\ pc' = "done"
            /\ UNCHANGED err
    /\ UNCHANGED <<variant, entry, image8, image, window_size, omega, t0, dark,
                   atmospheric_light, tdark, transmission, raw_transmission>>

\* the round trip's caller hazes the scene
Haze ==
    /\ pc = "haze"
    /\ image' = hazed(to_float(image8), raw_transmission, atmospheric_light)
    /\ pc' = "recover"
    /\ UNCHANGED <<variant, entry, image8, window_size, omega, t0, dark,
                   atmospheric_light, tdark, transmission, raw_transmission, J,
                   dehazed_image, err>>

\* the steps the interpreter takes by itself
Step ==
    \/ Convert
    \/ DarkChannel
    \/ AtmosphericLight
    \/ TransmissionEstimate
    \/ TransmissionRest
    \/ Recover
    \/ Haze

Next == Step \/ KeyPress

Spec == Init /\ [][Next]_vars

\* where a call can stand
Positions ==
    {"convert", "dark", "dark_waitKey", "atmos", "trans", "trans_waitKey",
     "trans_rest", "recover", "haze", "done", "raised"}

\* where the interpreter runs by itself: every position but the waits for a
\* key and the two ends
Running == {"convert", "dark", "atmos", "trans", "trans_rest", "recover", "haze"}

\* the call moves on from a position where the interpreter runs by itself
Proceeds == pc \in Running /\ pc' \in Positions \ {pc}

\* the interpreter never stops by itself; nothing makes the user press a key
FairSpec == Spec /\ WF_pc(Proceeds)

(***************************************************************************)
(* The dark channel at the border.                                         *)
(***************************************************************************)
Clamped(i, n) == IF i < 1 THEN 1 ELSE IF i > n THEN n ELSE i

\* the minimum of map over the (2r+1) x (2r+1) window centred at (y, x), a
\* position outside the map standing for the nearest pixel of the map
ReplicateMin(map, y, x, r) ==
    MinOfSet({map[Clamped(y + dy, Height(map))][Clamped(x + dx, Width(map))] :
                 dy \in (-r)..r, dx \in (-r)..r})

\* get_dark_channel has returned a map for an odd window of radius >= 1
DarkReturned ==
    /\ entry \in {"get_dark_channel", "dehaze"}
    /\ pc \notin {"convert", "dark", "raised"}
    /\ window_size >= 3
    /\ window_size % 2 = 1

\* C3: for an odd window 2r+1, r >= 1 (also r at or beyond the image's
\* sides), the map get_dark_channel returns holds at every pixel the minimum
\* of the channel-minimum map over the window, positions outside the image
\* replaced by the nearest valid pixel
C3_ReplicateBorder ==
    DarkReturned =>
        \A y \in 1..Height(image) : \A x \in 1..Width(image) :
            dark[y][x] = ReplicateMin(min_channel(image), y, x, window_size \div 2)

\* a 3 x 3 window on a map 3 wide hangs over the border at both ends of the
\* first row, and the two ends got different values
C3_Witness ==
    /\ DarkReturned
    /\ entry = "get_dark_channel"
    /\ window_size = 3
    /\ Width(image) = 3
    /\ dark[1][1] # dark[1][3]
    /\ ~IsZero(dark[1][1])
    /\ ~IsZero(dark[1][3])

\* a window whose radius is at or beyond both sides of the image: the
\* result is the global minimum everywhere
C3_WitnessWide ==
    /\ DarkReturned
    /\ window_size \div 2 >= Height(image)
    /\ window_size \div 2 >= Width(image)
    /\ NumPixels(image) > 1
    /\ \E y \in 1..Height(image) : \E x \in 1..Width(image) :
           min_channel(image)[y][x] # dark[y][x]

(***************************************************************************)
(* Invalid arguments.                                                      *)
(***************************************************************************)
SameShape(a, b) == Height(a) = Height(b) /\ Width(a) = Width(b)

InUnit(v) == LeD(Zero, v) /\ LeD(v, One)

InUnitAboveZero(v) == LtD(Zero, v) /\ LeD(v, One)

\* the call in progress was handed an argument the specification calls
\* invalid
InvalidCall ==
    \/ entry = "get_dark_channel" /\ window_size <= 0
    \/ entry = "get_atmospheric_light" /\ ~SameShape(image, dark)
    \/ entry = "get_transmission_estimate" /\ ~InUnit(omega)
    \/ entry = "get_recovered_image"
         /\ (~InUnitAboveZero(t0) \/ ~SameShape(image, raw_transmission))

\* C6: a stage handed an invalid argument (a window <= 0, a dark map of
\* another shape than the image, an omega outside [0, 1], a minimum
\* transmission outside (0, 1], a transmission map of another shape than
\* the image) never returns a result
C6_InvalidArgumentRejected == InvalidCall => pc # "done"

\* where the stages do reject: a window <= 0 makes get_dark_channel raise
C6_WindowRejected ==
    (entry = "get_dark_channel" /\ window_size <= 0 /\ pc # "dark")
        => (pc = "raised" /\ err = "cv2.error")

(***************************************************************************)
(* The atmospheric light.                                                  *)
(***************************************************************************)
\* the pixels at idx are distinct, and no pixel left out has a strictly
\* larger dark-channel value than one of them
SelectsBrightest(idx, dark_vec) ==
    /\ \A i, j \in DOMAIN idx : i # j => idx[i] # idx[j]
    /\ \A j \in DOMAIN dark_vec :
          (\A l \in DOMAIN idx : idx[l] # j)
              => \A i \in DOMAIN idx : ~LtD(dark_vec[idx[i]], dark_vec[j])

\* A is the per-channel mean of the colours of k pixels so selected
IsMeanOfBrightest(A, image_vec, dark_vec, k) ==
    \E idx \in [1..k -> DOMAIN dark_vec] :
        /\ SelectsBrightest(idx, dark_vec)
        /\ A = mean([j \in 1..k |-> image_vec[idx[j]]])

AtmosphericLightCalled ==
    /\ entry = "get_atmospheric_light"
    /\ SameShape(image, dark)
    /\ pc # "atmos"

\* C4: for every non-empty image, a single pixel included, and a dark map
\* of the same dimensions, get_atmospheric_light returns the per-channel
\* mean of the colours of k = max(floor(numPixels * 0.2), 1) pixels such that
\* no pixel left out has a strictly larger dark-channel value
C4_ReturnsMeanOfBrightest ==
    AtmosphericLightCalled =>
        /\ pc = "done"
        /\ IsMeanOfBrightest(atmospheric_light, Flatten(image), Flatten(dark),
                             IntMax((NumPixels(dark) * 2) \div 10, 1))

\* the same for images of two pixels or more, where the call does return
C4_ReturnsMeanOfBrightestOfSeveral ==
    (AtmosphericLightCalled /\ NumPixels(image) >= 2) =>
        /\ pc = "done"
        /\ IsMeanOfBrightest(atmospheric_light, Flatten(image), Flatten(dark),
                             IntMax((NumPixels(dark) * 2) \div 10, 1))

\* the single-pixel call has raised
C4_SinglePixelRaises ==
    /\ AtmosphericLightCalled
    /\ NumPixels(image) = 1
    /\ pc = "raised"
    /\ err = "ValueError"

\* two pixels are averaged: a 2 x 5 image
C4_WitnessSeveral ==
    /\ AtmosphericLightCalled
    /\ NumPixels(image) = 10
    /\ pc = "done"
    /\ atmospheric_light[1] # Flatten(image)[10][1]
    /\ atmospheric_light[1] # Flatten(image)[9][1]

(***************************************************************************)
(* One white pixel among three black ones.                                 *)
(***************************************************************************)
White == Grey(MaxLevel)

Black == Grey(Zero)

\* get_atmospheric_light has returned for the 2 x 2 image with one white and
\* three black pixels and the dark map get_dark_channel computes from it
\* for the window ws
WhiteAmongBlack(ws) ==
    /\ entry = "get_atmospheric_light"
    /\ pc = "done"
    /\ \E p \in 1..4 : image = OneOdd(2, 2, Black, White, p)
    /\ window_size = ws
    /\ dark = get_dark_channel(image, ws)

\* C10 as stated: with a window of radius 1 the atmospheric light is white,
\* whichever way ties in the dark map are broken
C10_WhiteWhateverTies == WhiteAmongBlack(3) => atmospheric_light = White

\* C10: with a window of radius 1 the dark map is 0 everywhere, all four
\* pixels tie, and the atmospheric light is the colour of the pixel the
\* tie-break picks, white or black; it is white whichever way ties are
\* broken when the window is the pixel itself (size 1), the dark map then
\* being largest at the white pixel alone
C10_WhiteOrBlack ==
    /\ WhiteAmongBlack(3) =>
          /\ dark = Uniform(2, 2, Zero)
          /\ atmospheric_light \in {White, Black}
    /\ WhiteAmongBlack(1) => atmospheric_light = White

\* the tie was broken in favour of a black pixel
C10_Witness == WhiteAmongBlack(3) /\ atmospheric_light = Black

C10_WitnessWindowOne == WhiteAmongBlack(1) /\ atmospheric_light = White

(***************************************************************************)
(* The recovered image.                                                    *)
(***************************************************************************)
\* get_recovered_image has returned for a transmission map of the image's
\* dimensions and a minimum transmission in (0, 1]
RecoverReturned ==
    /\ entry \in {"get_recovered_image", "roundtrip", "dehaze"}
    /\ pc = "done"
    /\ SameShape(image, raw_transmission)
    /\ InUnitAboveZero(t0)

\* C1: whatever the transmission (below the minimum, zero, negative) and
\* the atmospheric light, every channel get_recovered_image returns is an
\* integer in 0..255; a value above 1 before the scaling comes out as 255
\* and a value below 0 as 0
C1_Saturates ==
    RecoverReturned =>
        \A y \in 1..Height(J) : \A x \in 1..Width(J) : \A c \in 1..3 :
            /\ dehazed_image[y][x][c] \in 0..255
            /\ LtD(One, J[y][x][c]) => dehazed_image[y][x][c] = 255
            /\ LtD(J[y][x][c], Zero) => dehazed_image[y][x][c] = 0

\* a negative transmission, one channel far above 1 and one far below 0
\* before the clamp
C1_Witness ==
    /\ RecoverReturned
    /\ entry = "get_recovered_image"
    /\ LtD(raw_transmission[1][1], Zero)
    /\ LtD(Two, J[1][1][3])
    /\ LtD(J[1][1][1], MinusOne)
    /\ dehazed_image[1][1][3] = 255
    /\ dehazed_image[1][1][1] = 0

(***************************************************************************)
(* The transmission map.                                                   *)
(***************************************************************************)
ImageInUnit(img) ==
    \A y \in 1..Height(img) : \A x \in 1..Width(img) : \A c \in 1..3 : InUnit(img[y][x][c])

\* get_transmission_estimate has returned for an image and an atmospheric
\* light in [0, 1], an odd window and an omega in [0, 1]
TransmissionReturned ==
    /\ entry \in {"get_transmission_estimate", "dehaze"}
    /\ pc \in {"recover", "done"}
    /\ window_size >= 1
    /\ window_size % 2 = 1
    /\ InUnit(omega)
    /\ ImageInUnit(image)
    /\ \A c \in 1..3 : InUnit(atmospheric_light[c])

\* clamp(1 - omega * darkChannel(image / (atmosphericLight + epsilon)), floor, 1)
ExpectedTransmission(y, x) ==
    clip(SubD(One, MulD(omega,
             ReplicateMin(min_channel(normalized_image(image, atmospheric_light)),
                          y, x, window_size \div 2))),
         TransmissionFloor, One)

\* C2: every value of the map get_transmission_estimate returns lies in
\* [0.01, 1] and is clamp(1 - omega * darkChannel(image / (A + 1e-6)), 0.01, 1)
C2_TransmissionInRange ==
    TransmissionReturned =>
        \A y \in 1..Height(image) : \A x \in 1..Width(image) :
            /\ LeD(TransmissionFloor, raw_transmission[y][x])
            /\ LeD(raw_transmission[y][x], One)
            /\ raw_transmission[y][x] = ExpectedTransmission(y, x)

\* the value before the clamp was below the floor, and the floor came out
C2_Witness ==
    /\ TransmissionReturned
    /\ entry = "get_transmission_estimate"
    /\ LtD(transmission[1][1], TransmissionFloor)
    /\ raw_transmission[1][1] = TransmissionFloor

\* a value strictly between the floor and 1 came out
C2_WitnessInside ==
    /\ TransmissionReturned
    /\ LtD(TransmissionFloor, raw_transmission[1][1])
    /\ LtD(raw_transmission[1][1], One)

(***************************************************************************)
(* The round trip of the haze model.                                       *)
(***************************************************************************)
RoundTripDone == entry = "roundtrip" /\ pc = "done"

WithinOneLevel(a8, b8) ==
    \A y \in 1..Height(a8) : \A x \in 1..Width(a8) : \A c \in 1..3 :
        a8[y][x][c] - b8[y][x][c] \in (-1)..1

AllAtLeast(map, v) ==
    \A y \in 1..Height(map) : \A x \in 1..Width(map) : LeD(v, map[y][x])

\* C5 as stated: for every transmission in (0, 1], recovering the hazed
\* scene with the same transmission and atmospheric light gives the scene
\* back within one 8-bit level
C5_RoundTrip == RoundTripDone => WithinOneLevel(dehazed_image, image8)

\* C5: the same for a transmission in [minTransmission, 1]; a transmission
\* below minTransmission is replaced by it and the scene does not come back
C5_RoundTripAboveMinimum ==
    (RoundTripDone /\ AllAtLeast(raw_transmission, t0))
        => WithinOneLevel(dehazed_image, image8)

\* a scene hazed down to a twentieth of its contrast came back
C5_Witness ==
    /\ RoundTripDone
    /\ AllAtLeast(raw_transmission, t0)
    /\ raw_transmission[1][1] = Twentieth
    /\ atmospheric_light = Grey(One)
    /\ image8[1][1] = <<0, 13, 255>>
    /\ WithinOneLevel(dehazed_image, image8)

\* the transmission was below the minimum and the scene did not come back
C5_WitnessBelowMinimum ==
    /\ RoundTripDone
    /\ ~AllAtLeast(raw_transmission, t0)
    /\ ~WithinOneLevel(dehazed_image, image8)

(***************************************************************************)
(* Uniform images.                                                         *)
(***************************************************************************)
AbsD(a) == [a EXCEPT !.s = 1]

\* v is nearer to the 8-bit level n than to any other
AtLevel(v, n) == LtD(AbsD(SubD(MulD(v, MaxLevel), FromInt(n))), Half)

\* dehaze has returned for a uniform image and a valid window, omega and
\* minimum transmission
UniformDehazed ==
    /\ entry = "dehaze"
    /\ pc = "done"
    /\ image8 = Uniform(Height(image8), Width(image8), image8[1][1])
    /\ window_size >= 1
    /\ InUnit(omega)
    /\ InUnitAboveZero(t0)

\* C8: for a uniform image the dark map is uniform and equal to the
\* pixel's channel minimum, the atmospheric light is the pixel's colour and
\* dehaze returns the input image, channel for channel
C8_UniformIsFixedPoint ==
    UniformDehazed =>
        /\ dark = Uniform(Height(image8), Width(image8), min_channel(image)[1][1])
        /\ \A c \in 1..3 : AtLevel(atmospheric_light[c], image8[1][1][c])
        /\ dehazed_image = image8

\* the 4 x 4 image of (50, 50, 50) does come back as it went in
C8_FiftyIsFixedPoint ==
    (UniformDehazed /\ image8 = Uniform(4, 4, Grey(50))) => dehazed_image = image8

\* the 4 x 4 image of (13, 13, 13) came back as (12, 12, 12)
C8_ThirteenDarkened ==
    /\ UniformDehazed
    /\ variant = Commented
    /\ window_size = DefaultWindowSize
    /\ image8 = Uniform(4, 4, Grey(13))
    /\ dehazed_image = Uniform(4, 4, Grey(12))

(***************************************************************************)
(* The transmission of the uniform (50, 50, 50) image.                     *)
(***************************************************************************)
\* get_transmission_estimate has returned for the 4 x 4 image of 50 / 255,
\* the atmospheric light 50 / 255, a window of radius 1 and an omega in
\* [0, 1]
FiftyTransmitted ==
    /\ entry = "get_transmission_estimate"
    /\ pc = "done"
    /\ image = Uniform(4, 4, Grey(Level50))
    /\ atmospheric_light = Grey(Level50)
    /\ window_size = 3
    /\ InUnit(omega)

\* C9 as stated: every value of the map is 1 - omega * 50 / 255
C9_OneMinusOmegaTimesLevel ==
    FiftyTransmitted =>
        raw_transmission = Uniform(4, 4, SubD(One, MulD(omega, Level50)))

\* C9: the map is uniform and every value is
\* clamp(1 - omega * x / (x + 1e-6), 0.01, 1) with x = 50 / 255, the image
\* being divided by the atmospheric light first: 0.05 and a little for
\* omega = 0.95
C9_NormalizedFirst ==
    FiftyTransmitted =>
        /\ raw_transmission =
              Uniform(4, 4, clip(SubD(One, MulD(omega, DivD(Level50, AddD(Level50, Epsilon)))),
                                 TransmissionFloor, One))
        /\ omega = DefaultOmega =>
              /\ LtD(Twentieth, raw_transmission[1][1])
              /\ LtD(raw_transmission[1][1], DefaultT0)

C9_Witness == FiftyTransmitted /\ omega = DefaultOmega

(***************************************************************************)
(* Termination of dehaze.                                                  *)
(***************************************************************************)
\* dehaze was just called on an image of two pixels or more
DehazeCalled == entry = "dehaze" /\ pc = "convert" /\ NumPixels(image8) >= 2

\* C7: once dehaze is called on a valid image, the call reaches its result
\* even if the environment never acts
C7_DehazeTerminates == DehazeCalled ~> (pc = "done")

\* the file without the display does
C7_CommentedTerminates == (DehazeCalled /\ variant = Commented) ~> (pc = "done")

\* dehaze waits for a key in the file with the display
C7_WaitsForKey == entry = "dehaze" /\ variant = Uncommented /\ pc = "dark_waitKey"
====
